---- MODULE Spec2Model ----
(***************************************************************************)
(* Colored Petri Net monitor (src/petri): token multisets, the CPN engine  *)
(* with its check-then-commit firing rule, and the monitor runtime that    *)
(* maps events to transitions, seeds the "free" place lazily, tracks the   *)
(* coverage set of marking hashes and resets the marking.                  *)
(***************************************************************************)
EXTENDS Integers, Sequences, FiniteSets, TLC

(***************************************************************************)
(* Bounds of the model.                                                    *)
(***************************************************************************)
\* lock ids range over 1..MaxLock
MaxLock == 2
\* thread ids range over 1..MaxTid
MaxTid == 2
\* a marking holds at most MaxTokens tokens in all (caps lazy seeding)
MaxTokens == 2
\* the coverage set holds at most MaxSeen hashes
MaxSeen == 2
\* the execution log holds at most MaxLog records
MaxLog == 2

VARIABLES
    transitions,      \* CpnEngine.transitions: id -> [pre, post]
    marking,          \* CpnEngine.marking: place -> (token -> count)
    event_mapping,    \* PetriRuntime.event_mapping: event type name -> id
    initial_marking,  \* PetriRuntime.initial_marking
    seen_markings,    \* PetriRuntime.seen_markings
    log_file,         \* PetriRuntime.log_file: Option<sequence of records>
    host_locked,      \* the locks the monitored program holds (tests/petri)
    machine,          \* the host: machine.petri_runtime, its fail_fast, last emit
    ret,              \* the last call made and the Result it returned
    end_ret           \* what the last record_execution_end call returned

vars == <<transitions, marking, event_mapping, initial_marking,
          seen_markings, log_file, host_locked, machine, ret,
          end_ret>>

(***************************************************************************)
(* Tokens (cpn.rs, enum Token).                                            *)
(***************************************************************************)
Tid(t) == [kind |-> "Tid", value |-> t]
Lock(l) == [kind |-> "Lock", value |-> l]
Loc(l) == [kind |-> "Loc", value |-> l]
Region(r) == [kind |-> "Region", value |-> r]
Unit == [kind |-> "Unit", value |-> 0]

Locks == 1..MaxLock
Tids == 1..MaxTid

\* Option<T>
Some(v) == [some |-> TRUE, val |-> v]
None == [some |-> FALSE, val |-> Unit]

(***************************************************************************)
(* Strings as byte sequences: what Ord on String compares and what         *)
(* Hash for str feeds to the hasher.                                       *)
(***************************************************************************)
Bytes(s) ==
    CASE s = "free" -> <<102, 114, 101, 101>>
      [] s = "held" -> <<104, 101, 108, 100>>
      [] s = "gate" -> <<103, 97, 116, 101>>
      [] s = "Tid" -> <<84, 105, 100>>
      [] s = "Lock" -> <<76, 111, 99, 107>>
      [] s = "Loc" -> <<76, 111, 99>>
      [] s = "Region" -> <<82, 101, 103, 105, 111, 110>>
      [] s = "Unit" -> <<85, 110, 105, 116>>

RECURSIVE DecDigits(_)
DecDigits(n) ==
    IF n < 10 THEN <<48 + n>> ELSE DecDigits(n \div 10) \o <<48 + (n % 10)>>

\* format!("{:?}", token): derived Debug of a tuple variant, "Lock(1)"; "Unit"
DebugStr(t) ==
    IF t.kind = "Unit" THEN Bytes("Unit")
    ELSE Bytes(t.kind) \o <<40>> \o DecDigits(t.value) \o <<41>>

\* lexicographic order of byte strings (str::cmp)
LexLess(a, b) ==
    \E i \in 1..(Len(a) + 1) :
        /\ i <= Len(b)
        /\ \A j \in 1..(i - 1) : a[j] = b[j]
        /\ (i > Len(a) \/ a[i] < b[i])

\* the orders in which iterating a hash map can yield the keys S
Orders(S) ==
    {o \in [1..Cardinality(S) -> S] :
        \A i, j \in 1..Cardinality(S) : o[i] = o[j] => i = j}

\* one of them
RECURSIVE AnyOrder(_)
AnyOrder(S) ==
    IF S = {} THEN <<>>
    ELSE LET x == CHOOSE y \in S : TRUE IN <<x>> \o AnyOrder(S \ {x})

\* a sort that leaves the vector as it is
SortVecNone(v, key) == v

\* Vec::sort / sort_by: v in ascending order of key[x], stable
RECURSIVE SortVec(_, _)
SortVec(v, key) ==
    IF v = <<>> THEN <<>>
    ELSE LET i == CHOOSE k \in 1..Len(v) :
                     \A j \in 1..Len(v) :
                        /\ ~LexLess(key[v[j]], key[v[k]])
                        /\ j < k => LexLess(key[v[k]], key[v[j]])
         IN <<v[i]>> \o SortVec(SubSeq(v, 1, i - 1) \o SubSeq(v, i + 1, Len(v)),
                                key)

(***************************************************************************)
(* Multiset (cpn.rs): token -> stored count.                               *)
(***************************************************************************)
EmptyMs == [t \in {} |-> 0]

MsAdd(m, token, count) ==
    IF token \in DOMAIN m THEN [m EXCEPT ![token] = @ + count]
    ELSE m @@ (token :> count)

\* a remove that drops every entry of the multiset when it succeeds
MsRemoveClear(m, token, count) ==
    IF token \in DOMAIN m /\ m[token] >= count
    THEN [ok |-> TRUE, ms |-> EmptyMs]
    ELSE [ok |-> FALSE, ms |-> m]

\* a remove that asks for more than count tokens (> in place of >=)
MsRemoveStrict(m, token, count) ==
    IF token \in DOMAIN m /\ m[token] > count
    THEN [ok |-> TRUE, ms |-> [m EXCEPT ![token] = @ - count]]
    ELSE [ok |-> FALSE, ms |-> m]

\* remove: [ok, ms]; the entry is deleted when its count reaches zero
MsRemove(m, token, count) ==
    IF token \in DOMAIN m /\ m[token] >= count
    THEN LET n == m[token] - count
         IN [ok |-> TRUE,
             ms |-> IF n = 0 THEN [t \in (DOMAIN m) \ {token} |-> m[t]]
                    ELSE [m EXCEPT ![token] = n]]
    ELSE [ok |-> FALSE, ms |-> m]

\* a contains that asks for more than count tokens (> in place of >=)
MsContainsStrict(m, token, count) ==
    IF token \in DOMAIN m THEN m[token] > count ELSE FALSE

MsContains(m, token, count) ==
    IF token \in DOMAIN m THEN m[token] >= count ELSE FALSE

MsCount(m, token) == IF token \in DOMAIN m THEN m[token] ELSE 0

(***************************************************************************)
(* Marking (cpn.rs): place -> Multiset.                                    *)
(***************************************************************************)
EmptyMarking == [p \in {} |-> EmptyMs]

\* Marking::get_or_insert: the marking with the place's entry present
GetOrInsert(M, place) ==
    IF place \in DOMAIN M THEN M ELSE M @@ (place :> EmptyMs)

\* Marking::add_token
AddToken(M, place, token, count) ==
    LET M1 == GetOrInsert(M, place)
    IN [M1 EXCEPT ![place] = MsAdd(@, token, count)]

\* count of a token in a place; an absent place holds nothing
Count(M, place, token) ==
    IF place \in DOMAIN M THEN MsCount(M[place], token) ELSE 0

\* the n low bytes of c, least significant first
RECURSIVE LeBytes(_, _)
LeBytes(c, n) ==
    IF n = 0 THEN <<>> ELSE <<c % 256>> \o LeBytes(c \div 256, n - 1)

\* Hash for usize writes its 8 bytes
UsizeBytes(c) == LeBytes(c, 8)

\* Hash for str: the bytes followed by 0xff
StrHash(bytes) == bytes \o <<255>>

RECURSIVE HashTokens(_, _, _)
HashTokens(m, tokens, i) ==
    IF i > Len(tokens) THEN <<>>
    ELSE StrHash(DebugStr(tokens[i])) \o UsizeBytes(m[tokens[i]])
         \o HashTokens(m, tokens, i + 1)

\* the loop over the sorted places; token_order[p] is the order in which
\* m.iter() yields the tokens of place p
RECURSIVE HashPlaces(_, _, _, _)
HashPlaces(M, places, token_order, i) ==
    IF i > Len(places) THEN <<>>
    ELSE LET p == places[i]
             tokens == SortVec(token_order[p],
                               [t \in DOMAIN M[p] |-> DebugStr(t)])
         IN StrHash(Bytes(p)) \o HashTokens(M[p], tokens, 1)
            \o HashPlaces(M, places, token_order, i + 1)

\* Marking::hash when keys() yields place_order and each m.iter() yields
\* token_order[p]: the byte stream fed to the hasher, places sorted, tokens
\* of each place sorted by their Debug text.  hasher.finish() is a fixed
\* function of that stream; it is kept as the stream itself.
MarkingHashIn(M, place_order, token_order) ==
    HashPlaces(M, SortVec(place_order, [p \in DOMAIN M |-> Bytes(p)]),
               token_order, 1)

\* the iteration orders the maps of M can have
TokenOrders(M) ==
    {f \in [DOMAIN M -> UNION {Orders(DOMAIN M[p]) : p \in DOMAIN M}] :
        \A p \in DOMAIN M : f[p] \in Orders(DOMAIN M[p])}

\* Marking::hash, under one of the iteration orders
MarkingHash(M) ==
    MarkingHashIn(M, AnyOrder(DOMAIN M),
                  [p \in DOMAIN M |-> AnyOrder(DOMAIN M[p])])

(***************************************************************************)
(* Arcs, transitions and the firing rule (cpn.rs, CpnEngine).              *)
(***************************************************************************)
Variable(v) == [kind |-> "Variable", variable |-> v, token |-> Unit]
Concrete(t) == [kind |-> "Concrete", variable |-> "", token |-> t]
ArcSpec(place, pattern) == [place |-> place, token |-> pattern]

resolve_token(pattern, binding) ==
    IF pattern.kind = "Concrete" THEN Some(pattern.token)
    ELSE IF pattern.variable \in DOMAIN binding
         THEN Some(binding[pattern.variable])
         ELSE None

\* a check loop that returns at the first arc it finds missing
RECURSIVE CheckPreFirst(_, _, _, _, _)
CheckPreFirst(pre, i, binding, M, missing) ==
    IF i > Len(pre) \/ missing # <<>> THEN missing
    ELSE LET arc == pre[i]
             tok == resolve_token(arc.token, binding)
         IN IF ~tok.some
            THEN CheckPreFirst(pre, i + 1, binding, M,
                               Append(missing, <<arc.place, Unit>>))
            ELSE IF arc.place \notin DOMAIN M
                    \/ ~MsContains(M[arc.place], tok.val, 1)
                 THEN CheckPreFirst(pre, i + 1, binding, M,
                                    Append(missing, <<arc.place, tok.val>>))
                 ELSE CheckPreFirst(pre, i + 1, binding, M, missing)

\* a check loop that takes an absent place as satisfied (map_or(false, ..))
RECURSIVE CheckPreAbsentOk(_, _, _, _, _)
CheckPreAbsentOk(pre, i, binding, M, missing) ==
    IF i > Len(pre) THEN missing
    ELSE LET arc == pre[i]
             tok == resolve_token(arc.token, binding)
         IN IF ~tok.some
            THEN CheckPreAbsentOk(pre, i + 1, binding, M,
                                  Append(missing, <<arc.place, Unit>>))
            ELSE IF arc.place \in DOMAIN M
                    /\ ~MsContains(M[arc.place], tok.val, 1)
                 THEN CheckPreAbsentOk(pre, i + 1, binding, M,
                                       Append(missing, <<arc.place, tok.val>>))
                 ELSE CheckPreAbsentOk(pre, i + 1, binding, M, missing)

\* a check loop that looks for the Unit token when a variable is unbound
RECURSIVE CheckPreUnitFallback(_, _, _, _, _)
CheckPreUnitFallback(pre, i, binding, M, missing) ==
    IF i > Len(pre) THEN missing
    ELSE LET arc == pre[i]
             tok == resolve_token(arc.token, binding)
             token == IF tok.some THEN tok.val ELSE Unit
         IN IF arc.place \notin DOMAIN M
               \/ ~MsContains(M[arc.place], token, 1)
            THEN CheckPreUnitFallback(pre, i + 1, binding, M,
                                      Append(missing, <<arc.place, token>>))
            ELSE CheckPreUnitFallback(pre, i + 1, binding, M, missing)

\* the check loop of fire: the missing list, built without consuming
RECURSIVE CheckPre(_, _, _, _, _)
CheckPre(pre, i, binding, M, missing) ==
    IF i > Len(pre) THEN missing
    ELSE LET arc == pre[i]
             tok == resolve_token(arc.token, binding)
         IN IF ~tok.some
            THEN CheckPre(pre, i + 1, binding, M,
                          Append(missing, <<arc.place, Unit>>))
            ELSE IF arc.place \notin DOMAIN M
                    \/ ~MsContains(M[arc.place], tok.val, 1)
                 THEN CheckPre(pre, i + 1, binding, M,
                               Append(missing, <<arc.place, tok.val>>))
                 ELSE CheckPre(pre, i + 1, binding, M, missing)

\* the consume loop of fire; the result of remove is discarded
RECURSIVE ConsumePre(_, _, _, _)
ConsumePre(pre, i, binding, M) ==
    IF i > Len(pre) THEN M
    ELSE LET arc == pre[i]
             r == resolve_token(arc.token, binding)
             token == IF r.some THEN r.val ELSE Unit
             M1 == GetOrInsert(M, arc.place)
         IN ConsumePre(pre, i + 1, binding,
                       [M1 EXCEPT ![arc.place] = MsRemove(@, token, 1).ms])

\* the produce loop of fire
RECURSIVE ProducePost(_, _, _, _)
ProducePost(post, i, binding, M) ==
    IF i > Len(post) THEN M
    ELSE LET arc == post[i]
             r == resolve_token(arc.token, binding)
             token == IF r.some THEN r.val ELSE Unit
             M1 == GetOrInsert(M, arc.place)
         IN ProducePost(post, i + 1, binding,
                        [M1 EXCEPT ![arc.place] = MsAdd(@, token, 1)])

\* Result<(), NotEnabled> together with the marking the call leaves
FireOk(M) == [ok |-> TRUE, marking |-> M, transition |-> "", missing |-> <<>>]
NotEnabled(M, id, missing) ==
    [ok |-> FALSE, marking |-> M, transition |-> id, missing |-> missing]

\* a check loop that consumes each token it finds: [marking, missing]
RECURSIVE CheckConsume(_, _, _, _)
CheckConsume(pre, i, binding, acc) ==
    IF i > Len(pre) THEN acc
    ELSE LET arc == pre[i]
             tok == resolve_token(arc.token, binding)
             M == acc.marking
         IN IF ~tok.some
            THEN CheckConsume(pre, i + 1, binding,
                     [acc EXCEPT !.missing = Append(@, <<arc.place, Unit>>)])
            ELSE IF arc.place \notin DOMAIN M
                    \/ ~MsContains(M[arc.place], tok.val, 1)
                 THEN CheckConsume(pre, i + 1, binding,
                          [acc EXCEPT !.missing =
                                          Append(@, <<arc.place, tok.val>>)])
                 ELSE CheckConsume(pre, i + 1, binding,
                          [acc EXCEPT !.marking =
                              [M EXCEPT ![arc.place] =
                                            MsRemove(@, tok.val, 1).ms]])

\* a fire that consumes while it checks, so a failure keeps what it took
fire_eager(table, M, transition_id, binding) ==
    IF transition_id \notin DOMAIN table
    THEN NotEnabled(M, transition_id, <<>>)
    ELSE LET transition == table[transition_id]
             r == CheckConsume(transition.pre, 1, binding,
                               [marking |-> M, missing |-> <<>>])
         IN IF r.missing # <<>>
            THEN NotEnabled(r.marking, transition_id, r.missing)
            ELSE FireOk(ProducePost(transition.post, 1, binding, r.marking))

\* a fire that takes an unknown transition id as nothing to do
fire_skip_unknown(table, M, transition_id, binding) ==
    IF transition_id \notin DOMAIN table
    THEN FireOk(M)
    ELSE LET transition == table[transition_id]
             missing == CheckPre(transition.pre, 1, binding, M, <<>>)
         IN IF missing # <<>>
            THEN NotEnabled(M, transition_id, missing)
            ELSE FireOk(ProducePost(transition.post, 1, binding,
                            ConsumePre(transition.pre, 1, binding, M)))

\* CpnEngine::fire
fire(table, M, transition_id, binding) ==
    IF transition_id \notin DOMAIN table
    THEN NotEnabled(M, transition_id, <<>>)
    ELSE LET transition == table[transition_id]
             missing == CheckPre(transition.pre, 1, binding, M, <<>>)
         IN IF missing # <<>>
            THEN NotEnabled(M, transition_id, missing)
            ELSE FireOk(ProducePost(transition.post, 1, binding,
                            ConsumePre(transition.pre, 1, binding, M)))


(***************************************************************************)
(* Net definitions given to the engine and to the loader.                  *)
(***************************************************************************)
Transition(id, pre, post) == [id |-> id, pre |-> pre, post |-> post]

\* CpnEngine::add_transition: insert under the transition's id
add_transition(table, t) ==
    [i \in (DOMAIN table) \cup {t.id} |-> IF i = t.id THEN t ELSE table[i]]

NoTransitions == [i \in {} |-> Transition("", <<>>, <<>>)]

\* acquire: pre free:L, post held:L
Acquire ==
    Transition("acquire", <<ArcSpec("free", Variable("L"))>>,
                          <<ArcSpec("held", Variable("L"))>>)

\* release: pre held:L, post free:L
Release ==
    Transition("release", <<ArcSpec("held", Variable("L"))>>,
                          <<ArcSpec("free", Variable("L"))>>)

\* acquire that also takes a global unit token from "gate"
GatedAcquire ==
    Transition("acquire", <<ArcSpec("free", Variable("L")),
                            ArcSpec("gate", Concrete(Unit))>>,
                          <<ArcSpec("held", Variable("L"))>>)

\* release that puts the unit token back into "gate"
GatedRelease ==
    Transition("release", <<ArcSpec("held", Variable("L"))>>,
                          <<ArcSpec("free", Variable("L")),
                            ArcSpec("gate", Concrete(Unit))>>)

\* a release with no pre-arc, whose post-arc names the variable "L"
ProduceOnly ==
    Transition("release", <<>>, <<ArcSpec("held", Variable("L"))>>)

\* the mutex net of test_mutex_acquire_release
\* acquire with the same pre-arc twice, release with the same post-arc twice
DoubleAcquire ==
    Transition("acquire",
               <<ArcSpec("free", Variable("L")), ArcSpec("free", Variable("L"))>>,
               <<ArcSpec("held", Variable("L"))>>)
DoubleRelease ==
    Transition("release",
               <<ArcSpec("held", Variable("L"))>>,
               <<ArcSpec("free", Variable("L")), ArcSpec("free", Variable("L"))>>)

MutexNet == add_transition(add_transition(NoTransitions, Acquire), Release)
\* a mutex net whose acquire has a second pre-arc
GatedNet ==
    add_transition(add_transition(NoTransitions, GatedAcquire), GatedRelease)
\* a net that defines no "acquire" transition
ReleaseOnlyNet == add_transition(NoTransitions, Release)
\* a net whose acquire takes two tokens of the lock from free
DoubleNet ==
    add_transition(add_transition(NoTransitions, DoubleAcquire), DoubleRelease)
\* a net whose only transition produces without consuming
ProduceOnlyNet == add_transition(NoTransitions, ProduceOnly)

Nets == {MutexNet, GatedNet, ReleaseOnlyNet}
TransitionIds == {"acquire", "release", "undefined"}
Places == {"free", "held", "gate"}
PlacedTokens == {Lock(l) : l \in Locks} \cup {Unit}

EmptyBinding == [v \in {} |-> Unit]
\* the bindings a caller of fire supplies: "L" bound to a lock or not, and
\* "tid", a variable no arc of these nets names, bound or not
Bindings ==
    {EmptyBinding}
    \cup {("L" :> Lock(l)) : l \in Locks}
    \cup {("tid" :> Tid(1))}
    \cup {("tid" :> Tid(1)) @@ ("L" :> Lock(l)) : l \in Locks}

\* the markings set up by at most n add_token(place, token, 1) calls
RECURSIVE MarkingsAfter(_)
MarkingsAfter(n) ==
    IF n = 0 THEN {EmptyMarking}
    ELSE LET prev == MarkingsAfter(n - 1)
         IN prev \cup {AddToken(M, p, t, 1) :
                          M \in prev, p \in Places, t \in PlacedTokens}

\* the number of tokens a multiset holds
RECURSIVE MsSize(_)
MsSize(m) ==
    IF DOMAIN m = {} THEN 0
    ELSE LET t == CHOOSE x \in DOMAIN m : TRUE
         IN m[t] + MsSize([x \in (DOMAIN m) \ {t} |-> m[x]])

\* the number of tokens a marking holds
RECURSIVE Total(_)
Total(M) ==
    IF DOMAIN M = {} THEN 0
    ELSE LET p == CHOOSE q \in DOMAIN M : TRUE
         IN MsSize(M[p]) + Total([q \in (DOMAIN M) \ {p} |-> M[q]])

\* the marking stays within the cap of the model
Bounded(M) == Total(M) <= MaxTokens

(***************************************************************************)
(* Events (event.rs).                                                      *)
(***************************************************************************)
EventFields ==
    [type |-> "", parent |-> 0, child |-> 0, joiner |-> 0, joinee |-> 0,
     tid |-> 0, reason |-> "", lock_id |-> 0, loc_id |-> 0, ordering |-> "",
     region_id |-> 0, size |-> 0]

ThreadSpawn(parent, child) ==
    [EventFields EXCEPT !.type = "ThreadSpawn", !.parent = parent, !.child = child]
ThreadJoin(joiner, joinee) ==
    [EventFields EXCEPT !.type = "ThreadJoin", !.joiner = joiner, !.joinee = joinee]
Yield(tid) == [EventFields EXCEPT !.type = "Yield", !.tid = tid]
Block(tid, reason) ==
    [EventFields EXCEPT !.type = "Block", !.tid = tid, !.reason = reason]
Wake(tid) == [EventFields EXCEPT !.type = "Wake", !.tid = tid]
LockAcquire(tid, lock_id) ==
    [EventFields EXCEPT !.type = "LockAcquire", !.tid = tid, !.lock_id = lock_id]
LockRelease(tid, lock_id) ==
    [EventFields EXCEPT !.type = "LockRelease", !.tid = tid, !.lock_id = lock_id]
AtomicLoad(tid, loc_id, ordering) ==
    [EventFields EXCEPT !.type = "AtomicLoad", !.tid = tid, !.loc_id = loc_id,
                        !.ordering = ordering]
AtomicStore(tid, loc_id, ordering) ==
    [EventFields EXCEPT !.type = "AtomicStore", !.tid = tid, !.loc_id = loc_id,
                        !.ordering = ordering]
UnsafeRead(tid, region_id, size) ==
    [EventFields EXCEPT !.type = "UnsafeRead", !.tid = tid,
                        !.region_id = region_id, !.size = size]
UnsafeWrite(tid, region_id, size) ==
    [EventFields EXCEPT !.type = "UnsafeWrite", !.tid = tid,
                        !.region_id = region_id, !.size = size]

\* PetriEvent::tid
EventTid(e) ==
    CASE e.type = "ThreadSpawn" -> e.parent
      [] e.type = "ThreadJoin" -> e.joiner
      [] OTHER -> e.tid

NoId == [some |-> FALSE, val |-> 0]

\* PetriEvent::object_id
object_id(e) ==
    CASE e.type \in {"LockAcquire", "LockRelease"} -> Some(e.lock_id)
      [] e.type \in {"AtomicLoad", "AtomicStore"} -> Some(e.loc_id)
      [] e.type \in {"UnsafeRead", "UnsafeWrite"} -> Some(e.region_id)
      [] OTHER -> NoId

\* PetriEvent::event_type_name
event_type_name(e) == e.type

LockEvents ==
    {LockAcquire(t, l) : t \in Tids, l \in Locks}
    \cup {LockRelease(t, l) : t \in Tids, l \in Locks}

\* events of the variants that carry no lock
OtherEvents ==
    {ThreadSpawn(p, c) : p \in Tids, c \in Tids}
    \cup {ThreadJoin(p, c) : p \in Tids, c \in Tids}
    \cup {Yield(t) : t \in Tids}
    \cup {Block(t, "mutex") : t \in Tids}
    \cup {Wake(t) : t \in Tids}
    \cup {AtomicLoad(t, 1, "SeqCst") : t \in Tids}
    \cup {AtomicStore(t, 1, "SeqCst") : t \in Tids}
    \cup {UnsafeRead(t, 1, 1) : t \in Tids}
    \cup {UnsafeWrite(t, 1, 1) : t \in Tids}

Events == LockEvents \cup OtherEvents



(***************************************************************************)
(* The loader (runtime.rs, PetriRuntime::load).                            *)
(***************************************************************************)
\* parse_initial_token on a descriptor <<kind, value>>
parse_initial_token(v) ==
    CASE v[1] = "Lock" -> Lock(v[2])
      [] v[1] = "Loc" -> Loc(v[2])
      [] v[1] = "Tid" -> Tid(v[2] % (2 ^ 32))
      [] v[1] = "Region" -> Region(v[2])
      [] OTHER -> Unit

\* the inner loop of load: one add per descriptor of a place's list
RECURSIVE LoadTokens(_, _, _, _)
LoadTokens(M, place, tokens, i) ==
    IF i > Len(tokens) THEN M
    ELSE LoadTokens(AddToken(M, place, parse_initial_token(tokens[i]), 1),
                    place, tokens, i + 1)

\* the outer loop of load over the definition's initial_marking map
RECURSIVE LoadMarking(_, _)
LoadMarking(def, places) ==
    IF places = {} THEN EmptyMarking
    ELSE LET p == CHOOSE q \in places : TRUE
         IN LoadTokens(LoadMarking(def, places \ {p}), p, def[p], 1)

\* a net definition file: transitions, event_mapping, initial_marking
PetriNetDef(table, mapping, im) ==
    [transitions |-> table, event_mapping |-> mapping, initial_marking |-> im]

NoInitialMarking == [p \in {} |-> <<>>]
NoMapping == [n \in {} |-> ""]
\* an event_mapping that spells out the two lock events
LockMapping == ("LockAcquire" :> "acquire") @@ ("LockRelease" :> "release")

\* definitions of the mutex net
MutexDefs ==
    {PetriNetDef(MutexNet, NoMapping, NoInitialMarking),
     PetriNetDef(MutexNet, NoMapping, ("free" :> <<<<"Lock", 1>>>>)),
     PetriNetDef(MutexNet, NoMapping, ("held" :> <<<<"Lock", 1>>>>)),
     PetriNetDef(MutexNet, LockMapping,
                 ("free" :> <<<<"Lock", 1>>, <<"Lock", 2>>>>))}

\* definitions whose "acquire" can fail after the lazy seeding
OtherDefs ==
    {PetriNetDef(GatedNet, NoMapping, NoInitialMarking),
     PetriNetDef(GatedNet, NoMapping, ("gate" :> <<<<"Unit", 0>>>>)),
     PetriNetDef(ReleaseOnlyNet, NoMapping, NoInitialMarking),
     PetriNetDef(ReleaseOnlyNet, LockMapping, ("held" :> <<<<"Lock", 1>>>>))}

NetDefs == MutexDefs \cup OtherDefs

(***************************************************************************)
(* The monitor runtime (runtime.rs, PetriRuntime).                         *)
(***************************************************************************)
\* a lookup whose match falls through to "release" for every other type name
get_transition_fallback(mapping, e) ==
    LET type_name == event_type_name(e)
    IN IF type_name \in DOMAIN mapping THEN Some(mapping[type_name])
       ELSE CASE type_name = "LockAcquire" -> Some("acquire")
              [] OTHER -> Some("release")

\* a lookup that tries the two defaults before the explicit mapping
get_transition_defaults_first(mapping, e) ==
    LET type_name == event_type_name(e)
    IN CASE type_name = "LockAcquire" -> Some("acquire")
         [] type_name = "LockRelease" -> Some("release")
         [] type_name \in DOMAIN mapping -> Some(mapping[type_name])
         [] OTHER -> [some |-> FALSE, val |-> ""]

\* get_transition_for_event: the explicit mapping, else the two defaults
get_transition_for_event(mapping, e) ==
    LET type_name == event_type_name(e)
    IN IF type_name \in DOMAIN mapping THEN Some(mapping[type_name])
       ELSE CASE type_name = "LockAcquire" -> Some("acquire")
              [] type_name = "LockRelease" -> Some("release")
              [] OTHER -> [some |-> FALSE, val |-> ""]

\* a binding that takes the spawned child as the thread of a ThreadSpawn
make_binding_child(e) ==
    LET tid == ("tid" :> Tid(IF e.type = "ThreadSpawn" THEN e.child
                                ELSE EventTid(e)))
    IN CASE e.type \in {"LockAcquire", "LockRelease"} ->
                tid @@ ("L" :> Lock(e.lock_id))
         [] e.type \in {"AtomicLoad", "AtomicStore"} ->
                tid @@ ("loc" :> Loc(e.loc_id))
         [] OTHER -> tid

make_binding(e) ==
    LET tid == ("tid" :> Tid(EventTid(e)))
    IN CASE e.type \in {"LockAcquire", "LockRelease"} ->
                tid @@ ("L" :> Lock(e.lock_id))
         [] e.type \in {"AtomicLoad", "AtomicStore"} ->
                tid @@ ("loc" :> Loc(e.loc_id))
         [] OTHER -> tid

\* a lazy init that seeds only a "free" place that exists (map_or(false, ..))
LazySeedPresent(M, transition_id, binding) ==
    IF /\ transition_id = "acquire"
       /\ "L" \in DOMAIN binding
       /\ binding["L"].kind = "Lock"
    THEN IF "free" \in DOMAIN M /\ ~MsContains(M["free"], binding["L"], 1)
         THEN AddToken(M, "free", binding["L"], 1)
         ELSE M
    ELSE M

\* the lazy init block of on_event: seed "free" with the lock of "L"
LazySeed(M, transition_id, binding) ==
    IF /\ transition_id = "acquire"
       /\ "L" \in DOMAIN binding
       /\ binding["L"].kind = "Lock"
    THEN IF "free" \notin DOMAIN M \/ ~MsContains(M["free"], binding["L"], 1)
         THEN AddToken(M, "free", binding["L"], 1)
         ELSE M
    ELSE M

NoEvent == EventFields

\* the value a call returned, with the name of the call
Ret(op) ==
    [op |-> op, ok |-> TRUE, event |-> NoEvent, tid |-> 0,
     object_id |-> NoId, transition |-> "",
     missing |-> <<>>, current_marking |-> EmptyMarking]

\* the (hash, is_new) pair of record_execution_end, or none yet
NoEnd == [some |-> FALSE, hash |-> <<>>, is_new |-> FALSE]
EndRet(hash, is_new) == [some |-> TRUE, hash |-> hash, is_new |-> is_new]

\* on_event: the marking it leaves and its result; fired tells whether a
\* transition fired (the event was mapped and fire returned Ok)
on_event(table, mapping, M, e) ==
    LET transition_id == get_transition_for_event(mapping, e)
    IN IF ~transition_id.some
       THEN [marking |-> M, ok |-> TRUE, fired |-> FALSE, missing |-> <<>>]
       ELSE LET binding == make_binding(e)
                seeded == LazySeed(M, transition_id.val, binding)
                result == fire(table, seeded, transition_id.val, binding)
            IN [marking |-> result.marking, ok |-> result.ok,
                fired |-> result.ok, missing |-> result.missing]

\* a log record that leaves the event out
LogRecordNoEvent(e, M) == [event |-> NoEvent, marking_hash |-> MarkingHash(M)]

\* the log record on_event writes after a firing
LogRecord(e, M) == [event |-> e, marking_hash |-> MarkingHash(M)]

\* Err(PetriViolation) of on_event
Violation(e, missing, M) ==
    [Ret("on_event") EXCEPT !.ok = FALSE, !.event = e, !.tid = EventTid(e),
                            !.object_id = object_id(e),
                            !.missing = missing, !.current_marking = M]

(***************************************************************************)
(* Initial states.                                                         *)
(***************************************************************************)
NoLog == [some |-> FALSE, val |-> <<>>]

\* the host machine: whether machine.petri_runtime is Some, the runtime's
\* config.fail_fast, what the last emit_petri_event returned ("none" before
\* the first call) and whether it printed the violation
Machine(installed, fail_fast) ==
    [petri_runtime |-> installed, fail_fast |-> fail_fast,
     result |-> "none", reported |-> FALSE]
\* the runtime used on its own, without a host
NoMachine == Machine(FALSE, TRUE)

\* a CpnEngine after add_transition and set_initial_marking
InitEngine ==
    /\ transitions \in Nets
    /\ marking \in MarkingsAfter(MaxTokens)
    /\ event_mapping = NoMapping
    /\ initial_marking = EmptyMarking
    /\ seen_markings = {}
    /\ log_file = NoLog
    /\ host_locked = {}
    /\ machine = NoMachine
    /\ ret = Ret("new")
    /\ end_ret = NoEnd

\* an engine given a net with repeated arcs, with a concrete arc, or with a
\* post-arc variable that no pre-arc names
InitArcs ==
    /\ transitions \in {DoubleNet, GatedNet, ProduceOnlyNet}
    /\ marking \in MarkingsAfter(MaxTokens)
    /\ event_mapping = NoMapping
    /\ initial_marking = EmptyMarking
    /\ seen_markings = {}
    /\ log_file = NoLog
    /\ host_locked = {}
    /\ machine = NoMachine
    /\ ret = Ret("new")
    /\ end_ret = NoEnd

\* the PetriRuntime that load returns for a definition and a log choice
LoadIn(def, log, host) ==
    /\ transitions = def.transitions
    /\ event_mapping = def.event_mapping
    /\ initial_marking = LoadMarking(def.initial_marking,
                                     DOMAIN def.initial_marking)
    /\ marking = initial_marking
    /\ seen_markings = {}
    /\ log_file = log
    /\ host_locked = {}
    /\ machine = host
    /\ ret = Ret("load")
    /\ end_ret = NoEnd

\* PetriRuntime::load for a runtime used on its own
Load(def, log) == LoadIn(def, log, NoMachine)

\* a runtime loaded without a log sink
Init == \E def \in NetDefs : Load(def, NoLog)

\* definitions used for repeated executions, with or without a log sink
CoverageDefs ==
    {PetriNetDef(MutexNet, NoMapping, NoInitialMarking),
     PetriNetDef(MutexNet, NoMapping, ("free" :> <<<<"Lock", 1>>>>))}

InitCoverage ==
    \E def \in CoverageDefs, log \in {NoLog, Some(<<>>)} : Load(def, log)

\* an event_mapping that exchanges the two lock events and maps Wake
SwapMapping ==
    ("LockAcquire" :> "release") @@ ("LockRelease" :> "acquire")
    @@ ("Wake" :> "release")
\* an event_mapping with an entry for LockAcquire and none for LockRelease
PartialMapping == ("LockAcquire" :> "release") @@ ("Yield" :> "undefined")

\* definitions that differ in their event_mapping
MappingDefs ==
    {PetriNetDef(MutexNet, NoMapping, ("held" :> <<<<"Lock", 1>>>>)),
     PetriNetDef(MutexNet, LockMapping, NoInitialMarking),
     PetriNetDef(MutexNet, SwapMapping, ("held" :> <<<<"Lock", 1>>>>)),
     PetriNetDef(MutexNet, PartialMapping, ("held" :> <<<<"Lock", 2>>>>))}

InitMapping == \E def \in MappingDefs : Load(def, NoLog)

\* a runtime loaded with a definition of the mutex net
InitMutexUse ==
    \E def \in MutexDefs, log \in {NoLog, Some(<<>>)} : Load(def, log)

\* a host whose machine.petri_runtime is None, or Some runtime loaded from a
\* definition with a PetriConfig whose fail_fast is true (the default) or
\* false (with_fail_fast)
InitHooks ==
    \E def \in NetDefs, installed \in BOOLEAN, fail_fast \in BOOLEAN :
        LoadIn(def, NoLog, Machine(installed, fail_fast))

(***************************************************************************)
(* Actions.                                                                *)
(***************************************************************************)
\* CpnEngine::fire called on the engine with a transition id and a binding
Fire(transition_id, binding) ==
    LET r == fire(transitions, marking, transition_id, binding)
    IN /\ Bounded(r.marking)
       /\ marking' = r.marking
       /\ ret' = [Ret("fire") EXCEPT !.ok = r.ok,
                                     !.transition = r.transition,
                                     !.missing = r.missing]
       /\ UNCHANGED <<transitions, event_mapping, initial_marking,
                      seen_markings, log_file, host_locked, machine, end_ret>>

\* the body of PetriRuntime::on_event
Deliver(e) ==
    LET r == on_event(transitions, event_mapping, marking, e)
    IN /\ Bounded(r.marking)
       /\ (log_file.some /\ r.fired) => Len(log_file.val) < MaxLog
       /\ marking' = r.marking
       /\ log_file' = IF log_file.some /\ r.fired
                      THEN Some(Append(log_file.val, LogRecord(e, r.marking)))
                      ELSE log_file
       /\ ret' = IF r.ok THEN Ret("on_event")
                 ELSE Violation(e, r.missing, r.marking)
       /\ UNCHANGED <<transitions, event_mapping, initial_marking,
                      seen_markings, end_ret>>

\* PetriRuntime::on_event, called with any event
OnEvent(e) == Deliver(e) /\ UNCHANGED <<host_locked, machine>>

\* PetriRuntime::record_execution_end
RecordExecutionEnd ==
    LET hash == MarkingHash(marking)
        is_new == hash \notin seen_markings
    IN /\ Cardinality(seen_markings \cup {hash}) <= MaxSeen
       /\ seen_markings' = seen_markings \cup {hash}
       /\ ret' = Ret("record_execution_end")
       /\ end_ret' = EndRet(hash, is_new)
       /\ UNCHANGED <<transitions, marking, event_mapping, initial_marking,
                      log_file, host_locked, machine>>

\* a reset that clears the coverage set and keeps the marking
ResetKeepMarking ==
    /\ seen_markings' = {}
    /\ ret' = Ret("reset")
    /\ UNCHANGED <<transitions, marking, event_mapping, initial_marking,
                   log_file, host_locked, machine, end_ret>>

\* PetriRuntime::reset
Reset ==
    /\ seen_markings' = {}
    /\ marking' = initial_marking
    /\ ret' = Ret("reset")
    /\ UNCHANGED <<transitions, event_mapping, initial_marking, log_file,
                   host_locked, machine, end_ret>>

\* the monitored program locks a mutex that is not locked: LockAcquire
HostLock(tid, lock_id) ==
    /\ lock_id \notin host_locked
    /\ Deliver(LockAcquire(tid, lock_id))
    /\ host_locked' = host_locked \cup {lock_id}
    /\ UNCHANGED machine

\* the monitored program unlocks a mutex that is locked: LockRelease
HostUnlock(tid, lock_id) ==
    /\ lock_id \in host_locked
    /\ Deliver(LockRelease(tid, lock_id))
    /\ host_locked' = host_locked \ {lock_id}
    /\ UNCHANGED machine

\* the monitored program spawns, joins, yields, ...: any other event
HostOther(e) == Deliver(e) /\ UNCHANGED <<host_locked, machine>>

\* PetriRuntime::fail_fast: the flag of the runtime's config
fail_fast(host) == host.fail_fast

\* what emit_petri_event returns and prints: interp_ok without a runtime or
\* when on_event returned Ok; on a Violation the error of throw_ub_format
\* when fail_fast, otherwise the message on stderr and interp_ok
EmitResult(installed, ok, ff) ==
    IF ~installed \/ ok THEN [result |-> "ok", reported |-> FALSE]
    ELSE IF ff THEN [result |-> "error", reported |-> FALSE]
    ELSE [result |-> "ok", reported |-> TRUE]

\* emit_petri_event called by the interpreter, which stops calling once the
\* error of an emit has aborted the execution
EmitPetriEvent(e) ==
    /\ machine.result # "error"
    /\ IF machine.petri_runtime
         THEN LET r == on_event(transitions, event_mapping, marking, e)
                  out == EmitResult(TRUE, r.ok, fail_fast(machine))
              IN /\ Deliver(e)
                 /\ machine' = [machine EXCEPT !.result = out.result,
                                               !.reported = out.reported]
         ELSE LET out == EmitResult(FALSE, TRUE, fail_fast(machine))
              IN /\ machine' = [machine EXCEPT !.result = out.result,
                                               !.reported = out.reported]
                 /\ UNCHANGED <<transitions, marking, event_mapping,
                                initial_marking, seen_markings, log_file,
                                ret, end_ret>>
    /\ UNCHANGED host_locked

\* the tokens and counts handed to a Multiset directly
MultisetTokens == PlacedTokens \cup {Tid(t) : t \in Tids}
MultisetCounts == 0..MaxTokens

\* a Marking with one place, whose Multiset the calls below act on
InitMultiset ==
    /\ transitions = NoTransitions
    /\ marking = GetOrInsert(EmptyMarking, "free")
    /\ event_mapping = NoMapping
    /\ initial_marking = EmptyMarking
    /\ seen_markings = {}
    /\ log_file = NoLog
    /\ host_locked = {}
    /\ machine = NoMachine
    /\ ret = Ret("new")
    /\ end_ret = NoEnd

\* Multiset::add on the place's multiset
MultisetAdd(token, count) ==
    LET M == [marking EXCEPT !["free"] = MsAdd(@, token, count)]
    IN /\ Bounded(M)
       /\ marking' = M
       /\ ret' = Ret("add")
       /\ UNCHANGED <<transitions, event_mapping, initial_marking,
                      seen_markings, log_file, host_locked, machine, end_ret>>

\* Multiset::remove on the place's multiset; ret.ok is the bool it returns
MultisetRemove(token, count) ==
    LET r == MsRemove(marking["free"], token, count)
    IN /\ marking' = [marking EXCEPT !["free"] = r.ms]
       /\ ret' = [Ret("remove") EXCEPT !.ok = r.ok]
       /\ UNCHANGED <<transitions, event_mapping, initial_marking,
                      seen_markings, log_file, host_locked, machine, end_ret>>

NextMultiset ==
    \/ \E t \in MultisetTokens, n \in MultisetCounts : MultisetAdd(t, n)
    \/ \E t \in MultisetTokens, n \in MultisetCounts : MultisetRemove(t, n)

NextEngine == \E id \in TransitionIds, b \in Bindings : Fire(id, b)

Next ==
    \/ \E e \in Events : OnEvent(e)
    \/ Reset

\* the events of a program that has one mutex
OneLockEvents ==
    {LockAcquire(t, 1) : t \in Tids} \cup {LockRelease(t, 1) : t \in Tids}
    \cup {Yield(t) : t \in Tids}

NextCoverage ==
    \/ \E e \in OneLockEvents : OnEvent(e)
    \/ RecordExecutionEnd
    \/ Reset

NextMutexUse ==
    \/ \E t \in Tids, l \in Locks : HostLock(t, l)
    \/ \E t \in Tids, l \in Locks : HostUnlock(t, l)
    \/ \E e \in OtherEvents : HostOther(e)

\* the events of one thread: lock events and events of four other types
OneThreadEvents ==
    {LockAcquire(1, l) : l \in Locks} \cup {LockRelease(1, l) : l \in Locks}
    \cup {Wake(1), Yield(1), Block(1, "mutex"), AtomicLoad(1, 1, "SeqCst")}

\* one execution: events, then at most one record_execution_end
NextMapping ==
    \/ \E e \in OneThreadEvents : OnEvent(e)
    \/ (seen_markings = {} /\ RecordExecutionEnd)

\* the interpreter emits events one after another
NextHooks == \E e \in Events : EmitPetriEvent(e)

\* one Multiset under every sequence of add and remove calls
SpecMultiset == InitMultiset /\ [][NextMultiset]_vars

\* the engine fired on nets whose arcs repeat a place and token
SpecArcs == InitArcs /\ [][NextEngine]_vars

\* the engine alone, fired with every id and binding
SpecEngine == InitEngine /\ [][NextEngine]_vars

\* the runtime under every event stream
Spec == Init /\ [][Next]_vars

\* repeated executions: events of one mutex, record_execution_end, reset
SpecCoverage == InitCoverage /\ [][NextCoverage]_vars

\* the runtime under the events of one execution, for several event mappings
SpecMapping == InitMapping /\ [][NextMapping]_vars

\* the mutex net fed by a program that uses its mutexes correctly
SpecMutexUse == InitMutexUse /\ [][NextMutexUse]_vars

\* the runtime behind the interpreter's hook, installed or not, with
\* fail_fast on or off
SpecHooks == InitHooks /\ [][NextHooks]_vars


(***************************************************************************)
(* Properties.                                                             *)
(***************************************************************************)
\* the event resolves to the given transition of the mutex net
MutexResolves(e, id) ==
    /\ transitions = MutexNet
    /\ get_transition_for_event(event_mapping, e) = Some(id)

\* C1: a fire that returns Err(NotEnabled), for an unknown id, an unresolved
\* variable or a missing token on any pre-arc, leaves the marking as it was.
C1_FireAtomicOnFailure ==
    [][(~ret'.ok /\ \E id \in TransitionIds, b \in Bindings : Fire(id, b))
          => marking' = marking]_vars

\* C1 witness: acquire of the gated net failed on its second pre-arc only,
\* so its first pre-arc was satisfied when the firing was refused.
C1_Witness ==
    /\ ret.op = "fire" /\ ~ret.ok
    /\ transitions = GatedNet
    /\ ret.transition = "acquire"
    /\ ret.missing = <<<<"gate", Unit>>>>

\* C2 (as claimed): an on_event that returns a Violation leaves the marking
\* exactly as it was before the call.
C2_OnEventAtomicOnViolation ==
    [][\A e \in Events :
          (OnEvent(e) /\ ~ret'.ok) => marking' = marking]_vars

\* C3 (as claimed): reset never removes a hash from the coverage set.
C3_ResetKeepsCoverage ==
    [][Reset => seen_markings \subseteq seen_markings']_vars

\* C4 (as claimed): when an execution ends in the marking the previous
\* execution ended in, record_execution_end reports it as not new.
C4_SameEndNotNew ==
    [][(RecordExecutionEnd /\ end_ret.some
            /\ end_ret.hash = MarkingHash(marking))
          => ~end_ret'.is_new]_vars

\* C5: after reset the marking equals the initial marking stored at load,
\* and no call changes the stored initial marking.
C5_ResetRestoresInitialMarking ==
    [][/\ initial_marking' = initial_marking
       /\ ret'.op = "reset" => marking' = initial_marking]_vars

\* C5 witness: reset was called after an event had fired (the log shows it)
\* and left a marking other than the initial one.
C5_Witness ==
    /\ ret.op = "reset"
    /\ log_file.some /\ Len(log_file.val) >= 1
    /\ log_file.val[Len(log_file.val)].marking_hash
           # MarkingHash(initial_marking)
    /\ log_file.val[1].event.type = "LockAcquire"
    /\ marking = initial_marking

\* C6: in the mutex net, with one Lock(l) in free and none in held, acquire
\* with L = Lock(l) succeeds and leaves free 0, held 1; from there release
\* succeeds and leaves free 1, held 0.
C6_MutexRoundTrip ==
    [][\A l \in Locks, b \in Bindings :
          (transitions = MutexNet /\ "L" \in DOMAIN b /\ b["L"] = Lock(l)) =>
             /\ (/\ Count(marking, "free", Lock(l)) = 1
                 /\ Count(marking, "held", Lock(l)) = 0
                 /\ Fire("acquire", b))
                => /\ ret'.ok
                   /\ Count(marking', "free", Lock(l)) = 0
                   /\ Count(marking', "held", Lock(l)) = 1
             /\ (/\ Count(marking, "free", Lock(l)) = 0
                 /\ Count(marking, "held", Lock(l)) = 1
                 /\ Fire("release", b))
                => /\ ret'.ok
                   /\ Count(marking', "free", Lock(l)) = 1
                   /\ Count(marking', "held", Lock(l)) = 0]_vars

\* C6 witness: a release fired in the mutex net and left the lock once in
\* free and the held place emptied.
C6_Witness ==
    /\ ret.op = "fire" /\ ret.ok
    /\ transitions = MutexNet
    /\ DOMAIN marking = {"free", "held"}
    /\ marking["held"] = EmptyMs
    /\ \E l \in Locks : marking["free"] = (Lock(l) :> 1)

\* C7: in the mutex net a LockRelease for a lock with no token in held is
\* rejected with missing = [("held", Lock(l))] and the marking is unchanged.
C7_ReleaseNotHeldRejected ==
    [][\A t \in Tids, l \in Locks :
          (/\ MutexResolves(LockRelease(t, l), "release")
           /\ OnEvent(LockRelease(t, l))
           /\ Count(marking, "held", Lock(l)) = 0)
          => /\ ~ret'.ok
             /\ ret'.missing = <<<<"held", Lock(l)>>>>
             /\ marking' = marking]_vars

\* C7 witness: a double unlock.  The lock was in no place initially, it is
\* now once in free (so it was acquired and released), and the held place
\* exists and lacks it; the LockRelease was rejected.
C7_Witness ==
    /\ ret.op = "on_event" /\ ~ret.ok
    /\ ret.event.type = "LockRelease"
    /\ transitions = MutexNet
    /\ Count(initial_marking, "free", Lock(ret.event.lock_id)) = 0
    /\ Count(initial_marking, "held", Lock(ret.event.lock_id)) = 0
    /\ "held" \in DOMAIN marking
    /\ Count(marking, "free", Lock(ret.event.lock_id)) = 1
    /\ Count(marking, "held", Lock(ret.event.lock_id)) = 0
    /\ ret.missing = <<<<"held", Lock(ret.event.lock_id)>>>>

\* C8: under the mutex net, when per lock LockAcquire and LockRelease
\* alternate starting with LockAcquire, no on_event returns a Violation.
C8_CorrectUseNeverReported == ~(ret.op = "on_event" /\ ~ret.ok)

\* C8 witness: starting from an empty marking, lock 2 was acquired and
\* released and lock 1 is held: events of two locks, all accepted.
C8_Witness ==
    /\ ret.op = "on_event" /\ ret.ok
    /\ initial_marking = EmptyMarking
    /\ host_locked = {1}
    /\ Count(marking, "held", Lock(1)) = 1
    /\ Count(marking, "free", Lock(2)) = 1

\* C9: in the mutex net a LockAcquire for a lock with no token in free is
\* accepted, raises the lock's count in held by one and leaves it 0 in free.
C9_LazySeeding ==
    [][\A t \in Tids, l \in Locks :
          (/\ MutexResolves(LockAcquire(t, l), "acquire")
           /\ OnEvent(LockAcquire(t, l))
           /\ Count(marking, "free", Lock(l)) = 0)
          => /\ ret'.ok
             /\ Count(marking', "held", Lock(l))
                    = Count(marking, "held", Lock(l)) + 1
             /\ Count(marking', "free", Lock(l)) = 0]_vars

\* C9 witness: the initial marking has no "free" place and never mentions
\* lock 2; an event was accepted and lock 2 is now in held.
C9_Witness ==
    /\ ret.op = "on_event" /\ ret.ok
    /\ transitions = MutexNet
    /\ "free" \notin DOMAIN initial_marking
    /\ Count(initial_marking, "held", Lock(2)) = 0
    /\ Count(marking, "held", Lock(2)) = 1
    /\ "free" \in DOMAIN marking
    /\ Count(marking, "free", Lock(2)) = 0

\* the token a pre-arc asks for under a binding (Unit when unresolved)
ArcToken(arc, b) ==
    IF resolve_token(arc.token, b).some
    THEN resolve_token(arc.token, b).val ELSE Unit

\* the pre-arc is unresolved or its token has count 0 in its place
ArcFails(arc, b, M) ==
    \/ ~resolve_token(arc.token, b).some
    \/ Count(M, arc.place, ArcToken(arc, b)) = 0

\* one (place, token) entry per failing pre-arc, in pre-arc order
ExpectedMissing(pre, b, M) ==
    LET failing == SelectSeq([i \in 1..Len(pre) |-> i],
                             LAMBDA i : ArcFails(pre[i], b, M))
    IN [k \in 1..Len(failing) |->
           <<pre[failing[k]].place, ArcToken(pre[failing[k]], b)>>]

\* C10: fire on a known transition fails exactly when some pre-arc fails;
\* then NotEnabled names the requested id and lists one (place, token)
\* entry for every failing pre-arc, in pre-arc order, and no other entry.
C10_FailureReport ==
    [][\A id \in DOMAIN transitions, b \in Bindings :
          Fire(id, b) =>
             /\ ret'.ok <=> ExpectedMissing(transitions[id].pre, b, marking) = <<>>
             /\ ~ret'.ok =>
                  /\ ret'.transition = id
                  /\ ret'.missing
                        = ExpectedMissing(transitions[id].pre, b, marking)]_vars

\* C10 witness: acquire of the gated net failed on both of its pre-arcs.
C10_Witness ==
    /\ ret.op = "fire" /\ ~ret.ok
    /\ transitions = GatedNet
    /\ \E l \in Locks :
          ret.missing = <<<<"free", Lock(l)>>, <<"gate", Unit>>>>

\* C11: in the mutex net, firing acquire or release with L = Lock(a) leaves
\* the count of every other token, and of every token in every place other
\* than free and held, as it was; and with Lock(a) once in free and not in
\* held, acquire succeeds and moves it to held whatever other locks hold.
C11_LocksIndependent ==
    [][\A a \in Locks, b \in Bindings :
          (transitions = MutexNet /\ "L" \in DOMAIN b /\ b["L"] = Lock(a)) =>
             /\ \A id \in {"acquire", "release"} :
                   Fire(id, b) =>
                      \A p \in Places, t \in PlacedTokens :
                         (t # Lock(a) \/ p \notin {"free", "held"})
                            => Count(marking', p, t) = Count(marking, p, t)
             /\ (/\ Count(marking, "free", Lock(a)) = 1
                 /\ Count(marking, "held", Lock(a)) = 0
                 /\ Fire("acquire", b))
                => /\ ret'.ok
                   /\ Count(marking', "free", Lock(a)) = 0
                   /\ Count(marking', "held", Lock(a)) = 1]_vars

\* C11 witness: both locks were acquired; free is empty and held has each
\* lock once.
C11_Witness ==
    /\ ret.op = "fire" /\ ret.ok
    /\ transitions = MutexNet
    /\ DOMAIN marking = {"free", "held"}
    /\ marking["free"] = EmptyMs
    /\ marking["held"] = (Lock(1) :> 1) @@ (Lock(2) :> 1)

\* C12: an event whose type name has no entry in event_mapping and is not
\* LockAcquire or LockRelease is accepted, and the marking, the coverage set
\* and the transition table stay as they were.
C12_UnmappedEventIgnored ==
    [][\A e \in OneThreadEvents \cap OtherEvents :
          (event_type_name(e) \notin DOMAIN event_mapping /\ OnEvent(e))
          => /\ ret'.ok
             /\ marking' = marking
             /\ seen_markings' = seen_markings
             /\ transitions' = transitions]_vars

\* C12 witness: under a mapping that has an entry for Wake and none for
\* Yield, events moved the marking away from the initial one, its hash was
\* recorded, and an on_event accepted after that left the marking at the
\* recorded hash.
C12_Witness ==
    /\ ret.op = "on_event" /\ ret.ok
    /\ event_mapping = SwapMapping
    /\ marking # initial_marking
    /\ seen_markings = {MarkingHash(marking)}

\* the step leaves what on_event leaves when it fires transition id for e
FiresAs(e, id) ==
    LET b == make_binding(e)
        r == fire(transitions, LazySeed(marking, id, b), id, b)
    IN /\ marking' = r.marking
       /\ ret'.ok = r.ok
       /\ ret'.missing = r.missing

\* C13: when event_mapping has an entry for the event's type name, on_event
\* fires that entry's transition, also for LockAcquire and LockRelease; the
\* defaults acquire and release are fired only when it has no entry.
C13_MappingPrecedence ==
    [][\A e \in OneThreadEvents :
          OnEvent(e) =>
             LET n == event_type_name(e)
             IN /\ n \in DOMAIN event_mapping => FiresAs(e, event_mapping[n])
                /\ (n \notin DOMAIN event_mapping /\ n = "LockAcquire")
                      => FiresAs(e, "acquire")
                /\ (n \notin DOMAIN event_mapping /\ n = "LockRelease")
                      => FiresAs(e, "release")]_vars

\* C13 witness: the mapping sends LockAcquire to release and LockRelease to
\* acquire; lock 1 started in held and an accepted event has moved it to
\* free, which only a fired release does.
C13_Witness ==
    /\ ret.op = "on_event" /\ ret.ok
    /\ event_mapping = SwapMapping
    /\ Count(initial_marking, "held", Lock(1)) = 1
    /\ Count(marking, "free", Lock(1)) = 1
    /\ Count(marking, "held", Lock(1)) = 0
    /\ seen_markings = {}

\* C14 (as claimed): remove(t, n) returns true exactly when the stored count
\* of t, 0 when t is absent, is >= n; then the count is lowered by n and the
\* entry deleted when it reaches zero; otherwise the multiset is unchanged.
C14_RemoveIffEnough ==
    [][\A t \in MultisetTokens, n \in MultisetCounts :
          MultisetRemove(t, n) =>
             LET S == marking["free"]
                 S2 == marking'["free"]
             IN /\ ret'.ok <=> MsCount(S, t) >= n
                /\ ret'.ok =>
                     /\ MsCount(S2, t) = MsCount(S, t) - n
                     /\ MsCount(S2, t) = 0 => t \notin DOMAIN S2
                     /\ \A u \in (DOMAIN S \cup DOMAIN S2) \ {t} :
                           u \in DOMAIN S /\ u \in DOMAIN S2 /\ S2[u] = S[u]
                /\ ~ret'.ok => S2 = S]_vars

\* C15 (as claimed): for the multiset S the place holds, every token t and
\* count n, add(t, n) followed by remove(t, n) succeeds and yields S.
C15_AddRemoveRoundTrip ==
    \A t \in MultisetTokens, n \in MultisetCounts :
       LET S == marking["free"]
           r == MsRemove(MsAdd(S, t, n), t, n)
       IN r.ok /\ r.ms = S

\* C16: the hash of a marking is the same under every order in which its
\* maps can be iterated, so markings of equal contents hash equally however
\* they were built.
C16_HashOfContents ==
    \A po \in Orders(DOMAIN marking), to \in TokenOrders(marking) :
       MarkingHashIn(marking, po, to) = MarkingHash(marking)

\* C16 witness: firings left two places, one of them with two tokens, so
\* both the places and the tokens can be iterated in more than one order.
C16_Witness ==
    /\ ret.op = "fire" /\ ret.ok
    /\ Cardinality(DOMAIN marking) >= 2
    /\ \E p \in DOMAIN marking : Cardinality(DOMAIN marking[p]) >= 2
    /\ Cardinality(TokenOrders(marking)) >= 2

\* C17: fire with an id that is not in the transition table returns
\* NotEnabled naming that id with an empty missing list, and on_event for an
\* event that resolves to such an id returns a Violation whose missing list
\* is empty.
C17_UnknownTransition ==
    [][/\ \A id \in TransitionIds \ DOMAIN transitions, b \in Bindings :
             LET r == fire(transitions, marking, id, b)
             IN ~r.ok /\ r.transition = id /\ r.missing = <<>>
       /\ \A e \in Events :
             LET id == get_transition_for_event(event_mapping, e)
             IN (id.some /\ id.val \notin DOMAIN transitions /\ OnEvent(e))
                   => (~ret'.ok /\ ret'.event = e /\ ret'.missing = <<>>)]_vars

\* C17 witness: the net defines no acquire, the explicit mapping sends
\* LockAcquire to acquire, and the LockAcquire was answered by a Violation
\* with nothing missing.
C17_Witness ==
    /\ ret.op = "on_event" /\ ~ret.ok
    /\ ret.event.type = "LockAcquire"
    /\ "LockAcquire" \in DOMAIN event_mapping
    /\ event_mapping["LockAcquire"] \notin DOMAIN transitions
    /\ ret.missing = <<>>

\* the number of arcs that resolve to token t in place p under binding b
ArcsOn(arcs, b, p, t) ==
    Cardinality({i \in 1..Len(arcs) :
                    arcs[i].place = p /\ ArcToken(arcs[i], b) = t})

\* every removal of the consume loop returns true
RECURSIVE RemovalsSucceed(_, _, _, _)
RemovalsSucceed(pre, i, b, M) ==
    IF i > Len(pre) THEN TRUE
    ELSE LET p == pre[i].place
             M1 == GetOrInsert(M, p)
             r == MsRemove(M1[p], ArcToken(pre[i], b), 1)
         IN r.ok /\ RemovalsSucceed(pre, i + 1, b, [M1 EXCEPT ![p] = r.ms])

\* C18 (as claimed): when fire succeeds, every removal of its consume loop
\* succeeded, and the count of each (place, token) is its count before,
\* minus the pre-arcs resolving to it, plus the post-arcs resolving to it.
C18_CommitCannotFail ==
    [][\A id \in DOMAIN transitions, b \in Bindings :
          (Fire(id, b) /\ ret'.ok) =>
             /\ RemovalsSucceed(transitions[id].pre, 1, b, marking)
             /\ \A p \in Places, t \in PlacedTokens :
                   Count(marking', p, t)
                      = Count(marking, p, t)
                        - ArcsOn(transitions[id].pre, b, p, t)
                        + ArcsOn(transitions[id].post, b, p, t)]_vars

\* M without the places that hold an empty multiset
Strip(M) == [p \in {q \in DOMAIN M : M[q] # EmptyMs} |-> M[p]]

\* C19 (as claimed): a marking hashes as the marking without its empty
\* places does, so a place that is absent and a place that holds the empty
\* multiset give the same hash.
C19_AbsentPlaceHashesAsEmpty ==
    MarkingHash(marking) = MarkingHash(Strip(marking))

\* C20 (as claimed): under the mutex net loaded with at most one token per
\* lock, every lock is at most once in held and at most once in free and
\* held together, whatever events were delivered.
C20_LockHeldAtMostOnce ==
    (/\ transitions = MutexNet
     /\ \A l \in Locks : Count(initial_marking, "free", Lock(l))
                           + Count(initial_marking, "held", Lock(l)) <= 1)
    => \A l \in Locks :
          /\ Count(marking, "held", Lock(l)) <= 1
          /\ Count(marking, "free", Lock(l))
                + Count(marking, "held", Lock(l)) <= 1

\* C21 (as claimed): in a successful firing every Variable post-arc names a
\* variable the binding has, and the Unit token is produced only by Concrete
\* Unit post-arcs: in each place the count of Unit changes by the Concrete
\* Unit post-arcs on it less the pre-arcs that resolve to Unit on it.
C21_NoUnboundPostArc ==
    [][\A id \in DOMAIN transitions, b \in Bindings :
          (Fire(id, b) /\ ret'.ok) =>
             LET post == transitions[id].post
                 pre == transitions[id].pre
             IN /\ \A i \in 1..Len(post) :
                      post[i].token.kind = "Variable"
                         => post[i].token.variable \in DOMAIN b
                /\ \A p \in Places :
                      Count(marking', p, Unit)
                         = Count(marking, p, Unit)
                           - ArcsOn(pre, b, p, Unit)
                           + Cardinality({i \in 1..Len(post) :
                                 /\ post[i].place = p
                                 /\ post[i].token = Concrete(Unit)})]_vars

\* the pre-arcs whose pattern is a variable the binding lacks
UnresolvedArcs(pre, b) ==
    {i \in 1..Len(pre) :
        pre[i].token.kind = "Variable" /\ pre[i].token.variable \notin DOMAIN b}

\* C22: when a pre-arc names a variable the binding lacks, fire fails, its
\* missing list has (the arc's place, Unit) for that arc whether or not the
\* place holds a Unit token, and the marking is unchanged; a Concrete
\* pattern resolves to its own token under every binding.
C22_UnresolvedPreArc ==
    [][/\ \A id \in DOMAIN transitions, b \in Bindings :
             (UnresolvedArcs(transitions[id].pre, b) # {} /\ Fire(id, b)) =>
                /\ ~ret'.ok
                /\ marking' = marking
                /\ \A i \in UnresolvedArcs(transitions[id].pre, b) :
                      \E k \in 1..Len(ret'.missing) :
                         ret'.missing[k] = <<transitions[id].pre[i].place, Unit>>
                /\ Len(ret'.missing)
                      >= Cardinality(UnresolvedArcs(transitions[id].pre, b))
       /\ \A t \in PlacedTokens, b \in Bindings :
             resolve_token(Concrete(t), b) = Some(t)]_vars

\* C22 witness: acquire was fired without a binding for "L" while free held
\* a Unit token, and was refused with (free, Unit) missing.
C22_Witness ==
    /\ ret.op = "fire" /\ ~ret.ok
    /\ transitions = MutexNet
    /\ ret.transition = "acquire"
    /\ ret.missing = <<<<"free", Unit>>>>
    /\ Count(marking, "free", Unit) >= 1

\* C23 (as claimed): every entry a multiset of the marking stores has a
\* count of at least 1.
C23_NoZeroCountEntry ==
    \A p \in DOMAIN marking : \A t \in DOMAIN marking[p] : marking[p][t] >= 1

\* C24: the binding on_event builds for an event maps "tid" to the event's
\* thread (the parent of a ThreadSpawn, the joiner of a ThreadJoin), "L" to
\* Lock(lock_id) exactly for LockAcquire and LockRelease, "loc" to
\* Loc(loc_id) exactly for AtomicLoad and AtomicStore, and nothing else.
C24_BindingConstruction ==
    [][\A e \in Events :
          OnEvent(e) =>
             LET b == make_binding(e)
                 thread == CASE e.type = "ThreadSpawn" -> e.parent
                             [] e.type = "ThreadJoin" -> e.joiner
                             [] OTHER -> e.tid
             IN /\ DOMAIN b \subseteq {"tid", "L", "loc"}
                /\ "tid" \in DOMAIN b /\ b["tid"] = Tid(thread)
                /\ "L" \in DOMAIN b
                      <=> e.type \in {"LockAcquire", "LockRelease"}
                /\ "L" \in DOMAIN b => b["L"] = Lock(e.lock_id)
                /\ "loc" \in DOMAIN b
                      <=> e.type \in {"AtomicLoad", "AtomicStore"}
                /\ "loc" \in DOMAIN b => b["loc"] = Loc(e.loc_id)]_vars

\* C24 witness: thread 1 released lock 2, which was not held; the token
\* reported missing is the lock of the event's lock_id, not of its tid.
C24_Witness ==
    /\ ret.op = "on_event" /\ ~ret.ok
    /\ ret.event = LockRelease(1, 2)
    /\ ret.tid = 1
    /\ ret.missing = <<<<"held", Lock(2)>>>>

\* C25: with a log sink, every step keeps the records already written; an
\* on_event whose transition fired appends one record carrying that event
\* and the hash of the marking the firing left; a rejected or unmapped event,
\* record_execution_end and reset (the calls ret.op names) leave the log as
\* it was.
C25_LogSequencing ==
    [][/\ log_file'.some = log_file.some
       /\ log_file.some =>
             /\ Len(log_file'.val) >= Len(log_file.val)
             /\ SubSeq(log_file'.val, 1, Len(log_file.val)) = log_file.val
       /\ \A e \in OneLockEvents :
             (log_file.some /\ ret'.op = "on_event" /\ OnEvent(e)) =>
                IF get_transition_for_event(event_mapping, e).some /\ ret'.ok
                THEN log_file'.val
                        = Append(log_file.val,
                                 [event |-> e,
                                  marking_hash |-> MarkingHash(marking')])
                ELSE log_file' = log_file
       /\ ret'.op \in {"record_execution_end", "reset"}
             => log_file' = log_file]_vars

\* C25 witness: the log holds the accepted LockAcquire and LockRelease in
\* that order, with the two hashes taken after each, and the event delivered
\* last was rejected and wrote nothing.
C25_Witness ==
    /\ ret.op = "on_event" /\ ~ret.ok
    /\ log_file.some /\ Len(log_file.val) = 2
    /\ log_file.val[1].event.type = "LockAcquire"
    /\ log_file.val[2].event.type = "LockRelease"
    /\ log_file.val[1].marking_hash # log_file.val[2].marking_hash
    /\ log_file.val[2].marking_hash = MarkingHash(marking)

\* on_event returned a Violation for the event on an installed runtime
Violates(e) ==
    machine.petri_runtime
    /\ ~on_event(transitions, event_mapping, marking, e).ok

\* the emit of the step aborts exactly on a violation under fail_fast
AbortsIffFailFast ==
    \A e \in Events :
        EmitPetriEvent(e) =>
            ((machine'.result = "error") <=> (Violates(e) /\ machine.fail_fast))

\* without a runtime every event is accepted and nothing is touched
NoRuntimeAccepts ==
    \A e \in Events :
        (~machine.petri_runtime /\ EmitPetriEvent(e)) =>
            /\ machine'.result = "ok"
            /\ ~machine'.reported
            /\ marking' = marking /\ ret' = ret /\ log_file' = log_file

\* a violation without fail_fast is printed and the execution goes on
ReportsAndContinues ==
    \A e \in Events :
        (Violates(e) /\ ~machine.fail_fast /\ EmitPetriEvent(e)) =>
            /\ machine'.reported
            /\ machine'.result = "ok"
            /\ \E e2 \in Events : ENABLED EmitPetriEvent(e2)

\* the abort protocol of the hook alone
HookAbortProtocol ==
    [][AbortsIffFailFast /\ NoRuntimeAccepts /\ ReportsAndContinues]_vars

\* C26: emit_petri_event aborts the execution exactly when a runtime is
\* installed, on_event returned a Violation and fail_fast is true; with
\* fail_fast false the violation is reported and the execution goes on with
\* the monitor working on the unchanged marking; without a runtime every
\* event is accepted
C26_FailFastProtocol ==
    [][/\ AbortsIffFailFast
       /\ NoRuntimeAccepts
       /\ ReportsAndContinues
       /\ \A e \in Events :
              (Violates(e) /\ ~machine.fail_fast /\ EmitPetriEvent(e)) =>
                  marking' = marking]_vars

====
